---------------------------- MODULE Spec2Model ----------------------------
(***************************************************************************)
(* A model of the image-edit service: the retry logic of callGeminiApi in  *)
(* its three variants, the response parser, the image download flows and   *)
(* the image proxies, and the in-memory task manager with the /api/edit    *)
(* endpoint and the task status endpoint.                                  *)
(***************************************************************************)
EXTENDS Integers, Sequences, FiniteSets, TLC

VARIABLES
    form,         \* url-utils.ts: the form's polling state (React state and closure)
    call,         \* the one callGeminiApi invocation under observation
    taskStore,    \* task-manager.ts: Map<string, EditTask>
    now,          \* Date.now()
    ticks,        \* how often the clock has advanced
    timers,       \* tasks whose setTimeout(processEditTask, 100) is pending
    proc,         \* per task: where its processEditTask stands
    posted,       \* the tasks POST /api/edit has answered for
    lastResponse, \* the response of the HTTP request handled last, if no
                  \* other step has been taken since
    fetch,        \* the one image download under observation
    parse,        \* the one upstream response being parsed
    kvStore,      \* the key-value task store of the split pipeline
    pipe          \* where the split pipeline is with each task

gvars == <<call>>
fvars == <<fetch>>
pvars == <<parse>>
svars == <<kvStore, pipe, form>>
tvars == <<taskStore, now, ticks, timers, proc, posted, lastResponse>>
vars == <<call, taskStore, now, ticks, timers, proc, posted, lastResponse, fetch,
         parse, kvStore, pipe, form>>

-----------------------------------------------------------------------------
(* Retry configuration of callGeminiApi.                                   *)

MAX_RETRIES == 3
RETRY_DELAY_MS == 2000

\* most upstream requests one observed call may issue in the model
MaxRequests == 8

\* The three variants of callGeminiApi in the repository:
\*   "chat"     startChat().sendMessage, retries on empty response
\*   "generate" generateContent, retries on missing image, alternative prompt
\*   "loop"     while loop, retries on invalid JSON and on rate limit
Variants == {"chat", "generate", "loop"}

\* What the upstream can answer to one request.
Outcomes == {"throw", "throwJson", "throwRate", "noResponse", "noCandidates",
             "empty", "textOnly", "image", "imageAndText"}

Thrown(o) == o \in {"throw", "throwJson", "throwRate"}

\* The wait before a retry. Only the loop variant distinguishes the cause:
\* a rate-limit error waits RETRY_DELAY_MS * retryCount, everything else
\* waits RETRY_DELAY_MS.
RetryWaitConstant(variant, cause, retryCount) == RETRY_DELAY_MS

RetryWait(variant, cause, retryCount) ==
    IF variant = "loop" /\ cause = "rate"
    THEN RETRY_DELAY_MS * retryCount
    ELSE RETRY_DELAY_MS

Waiting(c, cause, n) ==
    [c EXCEPT !.pc = "waiting", !.retries = n,
              !.waits = Append(@, [cause |-> cause, retry |-> n,
                                   ms |-> RetryWait(c.variant, cause, n)])]

Returned(c, res) == [c EXCEPT !.pc = "returned", !.result = res]

\* the catch block shared by the two recursive variants
CatchRetry(c, cause) ==
    IF c.retries < MAX_RETRIES - 1
    THEN Waiting(c, cause, c.retries + 1)
    ELSE Returned(c, "isError")

\* variant "chat": one attempt after the upstream answered o
ChatAttempt(c, o) ==
    IF Thrown(o) THEN CatchRetry(c, "error")
    ELSE IF o \in {"noResponse", "noCandidates", "empty"}
         THEN CatchRetry(c, "empty")
         ELSE Returned(c, "ok")

\* the branch of variant "generate" taken when the answer has no image
NoImageContent(c) ==
    IF c.retries >= MAX_RETRIES - 1
    THEN [c EXCEPT !.pc = "request", !.retries = 0,
                   !.switches = IF @ < MaxRequests THEN @ + 1 ELSE @]
    ELSE Waiting(c, "noimage", c.retries + 1)

\* variant "generate": one attempt after the upstream answered o
GenerateAttempt(c, o) ==
    IF Thrown(o) THEN CatchRetry(c, "error")
    ELSE IF o \in {"noResponse", "noCandidates"} THEN CatchRetry(c, "invalid")
    ELSE IF o \in {"empty", "textOnly"} THEN NoImageContent(c)
    ELSE Returned(c, "ok")

\* variant "loop": one iteration of the while loop after the upstream answered o
LoopAttempt(c, o) ==
    IF o = "throwJson" /\ c.retries + 1 <= MAX_RETRIES
    THEN Waiting(c, "json", c.retries + 1)
    ELSE IF o = "throwRate" /\ c.retries + 1 <= MAX_RETRIES
    THEN Waiting(c, "rate", c.retries + 1)
    ELSE IF Thrown(o) \/ o = "noResponse"
    THEN [c EXCEPT !.pc = "thrown", !.retries = @ + 1, !.result = "thrown"]
    ELSE Returned(c, "ok")

Attempt(c, o) ==
    CASE c.variant = "chat" -> ChatAttempt(c, o)
      [] c.variant = "generate" -> GenerateAttempt(c, o)
      [] c.variant = "loop" -> LoopAttempt(c, o)

IdleCall ==
    [variant |-> "chat", pc |-> "idle", retries |-> 0, switches |-> 0,
     requests |-> 0, waits |-> << >>, result |-> "none"]

\* The flows that download an image from the document platform, and whether
\* a flow goes on to the download with the token getAccessToken gave it:
\* fetchImageFromFeishu and the image proxy stop on an empty token,
\* fetchImageDataByToken does not look at it.
Flows == {"fetchImageFromFeishu", "fetchImageDataByToken", "imageProxy"}

TokenAccepted(flow, token) == flow = "fetchImageDataByToken" \/ token # ""

IdleFetch ==
    [flow |-> "none", pc |-> "idle", token |-> "", sent |-> << >>,
     result |-> "none"]

-----------------------------------------------------------------------------
(* The values parseGeminiResponse is handed: every value carries its       *)
(* JavaScript type; a string is the sequence of its pieces.                *)

Undefined == [t |-> "undefined"]
JsNull    == [t |-> "null"]
Number    == [t |-> "number"]
Str(s)    == [t |-> "string", v |-> s]
Arr(s)    == [t |-> "array", v |-> s]
Obj(r)    == [t |-> "object", v |-> r]

Truthy(x) == x.t \notin {"undefined", "null"} /\ x # Str(<< >>)

\* a || b
Or(a, b) == IF Truthy(a) THEN a ELSE b

\* o.k on a value that is neither null nor undefined
Get(o, k) == IF o.t = "object" /\ k \in DOMAIN o.v THEN o.v[k] ELSE Undefined

\* o?.k
OptGet(o, k) == IF o.t \in {"undefined", "null"} THEN Undefined ELSE Get(o, k)

\* a?.[0]
OptFirst(a) == IF a.t = "array" /\ Len(a.v) > 0 THEN a.v[1] ELSE Undefined

\* [...a] raises a TypeError on a value that is not iterable
Iterable(a) == a.t = "array"

IdleParse == [pc |-> "idle", response |-> JsNull]

Parsed(imageData, mimeType, textResponse) ==
    [imageData |-> imageData, mimeType |-> mimeType,
     textResponse |-> textResponse]

\* the outcome of a block of code: a returned value or a raised exception
Returns(v) == [raised |-> FALSE, value |-> v]
Raises     == [raised |-> TRUE, value |-> Undefined]

\* a loop over allParts that does not stop at an image: the last image wins
\* and the text of every part is collected
RECURSIVE ScanPartsToEnd(_, _, _)
ScanPartsToEnd(allParts, i, text) ==
    IF i > Len(allParts)
    THEN [raised |-> FALSE,
          value |-> [imageData |-> JsNull, mimeType |-> Str(<<"image/png">>),
                     textResponse |-> text]]
    ELSE LET part == allParts[i]
         IN  IF part.t \in {"undefined", "null"}
             THEN [raised |-> TRUE, value |-> Undefined]
             ELSE LET partText == Get(part, "text")
                      text2 == IF Truthy(partText) /\ partText.t = "string"
                               THEN Str(text.v \o partText.v) ELSE text
                      inlineData == Get(part, "inlineData")
                      inline_data == Get(part, "inline_data")
                      rest == ScanPartsToEnd(allParts, i + 1, text2)
                  IN  IF rest.raised \/ Truthy(rest.value.imageData)
                      THEN rest
                      ELSE IF Truthy(inlineData)
                      THEN [rest EXCEPT
                               !.value.imageData = Get(inlineData, "data"),
                               !.value.mimeType = Get(inlineData, "mimeType")]
                      ELSE IF Truthy(inline_data)
                      THEN [rest EXCEPT
                               !.value.imageData = Get(inline_data, "data"),
                               !.value.mimeType =
                                   Or(Or(Get(inline_data, "mime_type"),
                                         Get(inline_data, "mimeType")),
                                      Str(<<"image/png">>))]
                      ELSE rest

\* the loop over allParts from part i on, textResponse being text so far
RECURSIVE ScanParts(_, _, _)
ScanParts(allParts, i, text) ==
    IF i > Len(allParts)
    THEN Returns(Parsed(JsNull, Str(<<"image/png">>), text))
    ELSE LET part == allParts[i]
         IN  IF part.t \in {"undefined", "null"}
             THEN Raises
             ELSE LET partText == Get(part, "text")
                      text2 == IF Truthy(partText) /\ partText.t = "string"
                               THEN Str(text.v \o partText.v) ELSE text
                      inlineData == Get(part, "inlineData")
                      inline_data == Get(part, "inline_data")
                  IN  IF Truthy(inlineData)
                      THEN Returns(Parsed(Get(inlineData, "data"),
                                          Get(inlineData, "mimeType"), text2))
                      ELSE IF Truthy(inline_data)
                      THEN Returns(Parsed(
                               Get(inline_data, "data"),
                               Or(Or(Get(inline_data, "mime_type"),
                                     Get(inline_data, "mimeType")),
                                  Str(<<"image/png">>)),
                               text2))
                      ELSE ScanParts(allParts, i + 1, text2)

\* the try block of parseGeminiResponse
ParseBody(response) ==
    IF ~Truthy(response)
    THEN Returns(Parsed(JsNull, Str(<<"image/png">>), Str(<<"EMPTY_RESPONSE">>)))
    ELSE LET textResponse ==
                 IF Truthy(Get(response, "text")) THEN Get(response, "text")
                 ELSE IF Truthy(OptGet(Get(response, "response"), "text"))
                 THEN OptGet(Get(response, "response"), "text")
                 ELSE Str(<< >>)
             parts == Or(Get(response, "parts"), Arr(<< >>))
             candidateParts ==
                 Or(Or(OptGet(OptGet(OptFirst(Get(response, "candidates")),
                                     "content"), "parts"),
                       OptGet(OptGet(OptFirst(OptGet(Get(response, "response"),
                                                     "candidates")),
                                     "content"), "parts")),
                    Arr(<< >>))
         IN  IF ~Iterable(parts) \/ ~Iterable(candidateParts)
             THEN Raises
             ELSE LET allParts == parts.v \o candidateParts.v
                  IN  IF Len(allParts) = 0 /\ ~Truthy(textResponse)
                      THEN Returns(Parsed(JsNull, Str(<<"image/png">>),
                                          Str(<<"NO_CONTENT">>)))
                      ELSE LET scan == ScanParts(allParts, 1, textResponse)
                           IN  IF scan.raised THEN Raises
                               ELSE IF ~Truthy(scan.value.imageData)
                                       /\ Truthy(scan.value.textResponse)
                               THEN Returns([scan.value EXCEPT !.textResponse =
                                        Str(<<"NO_IMAGE_PREFIX">> \o @.v)])
                               ELSE scan

\* a try block without its catch block
Uncaught(outcome) == outcome

\* the catch block of parseGeminiResponse
Caught(outcome) ==
    IF outcome.raised
    THEN Returns(Parsed(JsNull, Str(<<"image/png">>), Str(<<"PARSE_ERROR">>)))
    ELSE outcome

parseGeminiResponse(response) == Caught(ParseBody(response))

-----------------------------------------------------------------------------
(* The in-memory task manager (task-manager.ts), POST /api/edit and the    *)
(* task status endpoint.                                                   *)

TASK_EXPIRY == 24 * 60 * 60 * 1000

\* tasks created in the model, and advances of the clock
MaxTasks == 1
MaxTicks == 2

TaskIds == 1..MaxTasks
ClockSteps == {TASK_EXPIRY}

\* an optional field: None when undefined, Some(v) when set
None == << >>
Some(v) == <<v>>

NoResponse == [endpoint |-> "none"]

\* A step that is no HTTP request. (A response is handed to the client before
\* the next step is taken: it is an output only, nothing reads it.)
Internal == lastResponse = NoResponse /\ lastResponse' = lastResponse

TasksIdle ==
    /\ taskStore = << >>
    /\ now = 0
    /\ ticks = 0
    /\ timers = {}
    /\ proc = [t \in TaskIds |-> [pc |-> "idle", retryCount |-> 0, token |-> ""]]
    /\ posted = {}
    /\ lastResponse = NoResponse

Stored == DOMAIN taskStore

\* cleanupExpiredTasks: a task is deleted when now - createdAt > TASK_EXPIRY
ExpiredFromExpiry(task, time) == time - task.createdAt >= TASK_EXPIRY

Expired(task, time) == time - task.createdAt > TASK_EXPIRY

cleanupExpiredTasks ==
    /\ taskStore' = [t \in {u \in Stored : ~Expired(taskStore[u], now)}
                        |-> taskStore[t]]
    /\ Internal
    /\ UNCHANGED <<svars, parse, call, fetch, now, ticks, timers, proc, posted>>

\* the clock advances by d; a timer of 100 ms has fired by then
Tick(d) ==
    /\ ticks < MaxTicks
    /\ timers = {}
    /\ now' = now + d
    /\ ticks' = ticks + 1
    /\ Internal
    /\ UNCHANGED <<svars, parse, call, fetch, taskStore, timers, proc, posted>>

\* createEditTask: the new task, stored under a fresh id
NewTask(taskId, originalImageId, prompt, time) ==
    [id |-> taskId, status |-> "pending", originalImageId |-> originalImageId,
     prompt |-> prompt, createdAt |-> time, completedAt |-> None,
     resultImageId |-> None, resultImageUrl |-> None, textResponse |-> None,
     error |-> None]

\* Object.assign(task, data)
Assign(task, data) ==
    [f \in DOMAIN task |-> IF f \in DOMAIN data THEN data[f] ELSE task[f]]

\* an update of the status that leaves completedAt as it is
updateTaskStatusUnstamped(store, taskId, status, data, time) ==
    IF taskId \notin DOMAIN store THEN store
    ELSE [store EXCEPT ![taskId] = Assign([@ EXCEPT !.status = status], data)]

\* updateTaskStatus(taskId, status, data): the store afterwards
updateTaskStatus(store, taskId, status, data, time) ==
    IF taskId \notin DOMAIN store THEN store
    ELSE [store EXCEPT ![taskId] =
            Assign([@ EXCEPT !.status = status,
                             !.completedAt =
                                 IF status \in {"completed", "failed"}
                                 THEN Some(time) ELSE @],
                   data)]

\* extractImageIdFromUrl of url-utils.ts on the kinds of URL of the model
UrlKinds == {"", "other", "feishuNoId", "feishuImage"}
Prompts == {"", "make it blue"}

extractImageIdFromUrl(imageUrl) ==
    IF imageUrl = "feishuImage" THEN Some("img_v3_1") ELSE None

IsFeishuUrl(imageUrl) == imageUrl \in {"feishuNoId", "feishuImage"}

ErrorResponse(endpoint, http, code) ==
    [endpoint |-> endpoint, http |-> http, success |-> FALSE, code |-> code]

\* when the handler of POST /api/edit hands the task to processEditTask:
\* "timer" is setTimeout(..., 100), "inline" would be a direct call
StartInline == "inline"

StartMode == "timer"

\* processEditTask up to its first await: the task becomes 'processing'
BeginProcessUnmarked(store, taskId, time) == store

BeginProcess(store, taskId, time) ==
    updateTaskStatus(store, taskId, "processing", << >>, time)

\* the validation of POST /api/edit: the error code, "" for a valid request
EditRequestError(prompt, imageUrl) ==
    IF prompt = "" THEN "MISSING_PROMPT"
    ELSE IF imageUrl = "" THEN "MISSING_IMAGE_URL"
    ELSE IF ~IsFeishuUrl(imageUrl) THEN "INVALID_URL"
    ELSE IF extractImageIdFromUrl(imageUrl) = None THEN "MISSING_IMAGE_ID"
    ELSE ""

\* POST /api/edit with an invalid request
PostEditRejected(prompt, imageUrl) ==
    /\ lastResponse = NoResponse
    /\ EditRequestError(prompt, imageUrl) # ""
    /\ lastResponse' =
           ErrorResponse("edit", 400, EditRequestError(prompt, imageUrl))
    /\ UNCHANGED <<svars, parse, call, fetch, taskStore, now, ticks, timers, proc, posted>>

\* POST /api/edit with a valid request: createEditTask, setTimeout, response
PostEdit(prompt, imageUrl) ==
    LET taskId == Cardinality(posted) + 1
        task == NewTask(taskId, extractImageIdFromUrl(imageUrl)[1], prompt, now)
        created == [t \in Stored \cup {taskId} |->
                       IF t = taskId THEN task ELSE taskStore[t]]
        inline == StartMode = "inline"
        store == IF inline THEN BeginProcess(created, taskId, now) ELSE created
        resp == [endpoint |-> "edit", http |-> 200, success |-> TRUE,
                 taskId |-> taskId, status |-> store[taskId].status]
    IN  /\ lastResponse = NoResponse
        /\ EditRequestError(prompt, imageUrl) = ""
        /\ taskId \in TaskIds
        /\ taskStore' = store
        /\ timers' = IF inline THEN timers ELSE timers \cup {taskId}
        /\ proc' = IF inline THEN [proc EXCEPT ![taskId].pc = "record"] ELSE proc
        /\ posted' = posted \cup {taskId}
        /\ lastResponse' = resp
        /\ UNCHANGED <<svars, parse, call, fetch, now, ticks>>

\* the catch block of processEditTask
\* (code is the code property of the error caught, "" when it has none)
ProcessingError(code) ==
    [error |-> Some([code |-> IF code = "" THEN "PROCESSING_ERROR" ELSE code,
                     message |-> "message"])]

FailSilently(t, code) ==
    /\ proc' = [proc EXCEPT ![t].pc = "done"]
    /\ UNCHANGED taskStore

Fail(t, code) ==
    /\ taskStore' = updateTaskStatus(taskStore, t, "failed",
                                     ProcessingError(code), now)
    /\ proc' = [proc EXCEPT ![t].pc = "done"]

\* the setTimeout of POST /api/edit fires: processEditTask(taskId) starts
StartProcess(t) ==
    /\ t \in timers
    /\ proc[t].pc = "idle"
    /\ timers' = timers \ {t}
    /\ IF t \notin Stored
       THEN /\ proc' = [proc EXCEPT ![t].pc = "notFound"]
            /\ UNCHANGED taskStore
       ELSE /\ taskStore' = BeginProcess(taskStore, t, now)
            /\ proc' = [proc EXCEPT ![t].pc = "record"]
    /\ Internal
    /\ UNCHANGED <<svars, parse, call, fetch, now, ticks, posted>>

\* getImageRecordById returns to fetchImageFromFeishu
RecordOutcomes == {"ok", "noFileToken", "throw"}

RecordReturns(t, r) ==
    /\ proc[t].pc = "record"
    /\ IF r = "ok"
       THEN /\ proc' = [proc EXCEPT ![t].pc = "token"]
            /\ UNCHANGED taskStore
       ELSE Fail(t, "")
    /\ Internal
    /\ UNCHANGED <<svars, parse, call, fetch, now, ticks, timers, posted>>

\* getAccessToken returns to fetchImageDataByToken, which sends the download
\* request with whatever it got
TokenOutcomes == {"tok", "", "throw"}

TokenReturns(t, k) ==
    /\ proc[t].pc = "token"
    /\ IF k # "throw" /\ TokenAccepted("fetchImageDataByToken", k)
       THEN /\ proc' = [proc EXCEPT ![t].pc = "download", ![t].token = k]
            /\ UNCHANGED taskStore
       ELSE Fail(t, "")
    /\ Internal
    /\ UNCHANGED <<svars, parse, call, fetch, now, ticks, timers, posted>>

\* the download answers
DownloadOutcomes == {"ok", "notOk", "emptyBody", "throw"}

DownloadReturns(t, d) ==
    /\ proc[t].pc = "download"
    /\ IF d = "ok"
       THEN /\ proc' = [proc EXCEPT ![t].pc = "gemini", ![t].retryCount = 0]
            /\ UNCHANGED taskStore
       ELSE Fail(t, "")
    /\ Internal
    /\ UNCHANGED <<svars, parse, call, fetch, now, ticks, timers, posted>>

\* parseGeminiResponse of the loop variant's module finds an image only in an
\* inlineData part
HasInlineData(o) == o \in {"image", "imageAndText"}

\* the upstream model answers the callGeminiApi (loop variant) of the task;
\* on a retry the delay elapses and the next request is sent
GeminiAnswers(t, o) ==
    /\ proc[t].pc = "gemini"
    /\ LET c == LoopAttempt([IdleCall EXCEPT !.variant = "loop",
                                            !.retries = proc[t].retryCount], o)
       IN  CASE c.pc = "waiting" ->
                  /\ proc' = [proc EXCEPT ![t].retryCount = c.retries]
                  /\ UNCHANGED taskStore
             [] c.pc = "thrown" -> Fail(t, "")
             [] c.pc = "returned" ->
                  IF HasInlineData(o)
                  THEN /\ proc' = [proc EXCEPT ![t].pc = "upload",
                                               ![t].token =
                                                   IF o = "imageAndText"
                                                   THEN "text" ELSE ""]
                       /\ UNCHANGED taskStore
                  ELSE Fail(t, "")
    /\ Internal
    /\ UNCHANGED <<svars, parse, call, fetch, now, ticks, timers, posted>>

\* uploadImageToFeishu returns to saveEditedImage
UploadOutcomes == {"ok", "error", "throw", "throwCode"}

UploadReturns(t, u) ==
    /\ proc[t].pc = "upload"
    /\ IF u = "ok"
       THEN /\ proc' = [proc EXCEPT ![t].pc = "saveRecord"]
            /\ UNCHANGED taskStore
       ELSE Fail(t, IF u = "throwCode" THEN "ECONNABORTED" ELSE "")
    /\ Internal
    /\ UNCHANGED <<svars, parse, call, fetch, now, ticks, timers, posted>>

\* the status processEditTask gives a task whose edited image has been saved
SavedStatus == "completed"

\* saveImageRecord returns to saveEditedImage, and processEditTask finishes
SaveRecordOutcomes == {"ok", "error", "throw"}

SaveRecordReturns(t, r) ==
    /\ proc[t].pc = "saveRecord"
    /\ IF r = "ok"
       THEN /\ taskStore' = updateTaskStatus(taskStore, t, SavedStatus,
                    [resultImageId |-> Some("new"),
                     resultImageUrl |-> Some("url"),
                     textResponse |-> IF proc[t].token = "text"
                                      THEN Some("text") ELSE None], now)
            /\ proc' = [proc EXCEPT ![t].pc = "done"]
       ELSE Fail(t, "")
    /\ Internal
    /\ UNCHANGED <<svars, parse, call, fetch, now, ticks, timers, posted>>

ProcessStep(t) ==
    \/ StartProcess(t)
    \/ \E r \in RecordOutcomes : RecordReturns(t, r)
    \/ \E k \in TokenOutcomes : TokenReturns(t, k)
    \/ \E d \in DownloadOutcomes : DownloadReturns(t, d)
    \/ \E o \in Outcomes : GeminiAnswers(t, o)
    \/ \E u \in UploadOutcomes : UploadReturns(t, u)
    \/ \E r \in SaveRecordOutcomes : SaveRecordReturns(t, r)

-----------------------------------------------------------------------------
(* The task store of the split pipeline: the key-value map behind          *)
(* createTask, getTask and updateTask.                                     *)

SplitIds == {"t1", "t2"}

\* where the pipeline is with a task: the requests to the process endpoint
\* issued and not yet handled, the run of the process endpoint and the run
\* of the save endpoint
NoPipe ==
    [start |-> "none", frontEnd |-> FALSE, requests |-> 0, queued |-> 0,
     pc |-> "none", task |-> None, live |-> FALSE, processHttp |-> 0,
     edits |-> 0, saveQueued |-> 0, save |-> "none", parentId |-> None,
     saveHttp |-> 0]

SplitIdle == kvStore = << >> /\ pipe = [t \in SplitIds |-> NoPipe]

\* createTask(data): the task as it is stored
createTask(taskId, imageId) ==
    [id |-> taskId, status |-> "pending", result |-> None, error |-> None,
     internal |-> [originalImageId |-> imageId, systemInternalId |-> None,
                   fileToken |-> None, processedImageData |-> None]]

\* getTask(taskId)
getTask(taskId) == IF taskId \in DOMAIN kvStore THEN Some(kvStore[taskId]) ELSE None

\* updateTask(taskId, updates): the store afterwards
updateTask(store, taskId, updates) ==
    IF taskId \notin DOMAIN store THEN store
    ELSE [store EXCEPT ![taskId] = Assign(@, updates)]

\* GET /api/task/status?taskId=... (0 stands for a request without taskId)
StatusQueries == {0} \cup TaskIds

\* the handler adds the result fields / the error to the response
IncludesResultWhenDone(task) == task.completedAt # None

IncludesResult(task) == task.status = "completed"

IncludesError(task) == task.status = "failed" /\ task.error # None

StatusResponse(q) ==
    IF q = 0
    THEN [endpoint |-> "status", query |-> q, http |-> 400,
          success |-> FALSE, code |-> "MISSING_TASK_ID"]
    ELSE IF q \notin Stored
    THEN [endpoint |-> "status", query |-> q, http |-> 404,
          success |-> FALSE, code |-> "TASK_NOT_FOUND"]
    ELSE LET task == taskStore[q]
             withResult == IncludesResult(task)
             withError == IncludesError(task)
         IN  [endpoint |-> "status", query |-> q, http |-> 200,
              success |-> TRUE, taskId |-> task.id, status |-> task.status,
              withResult |-> withResult,
              resultImageId |-> IF withResult THEN task.resultImageId ELSE None,
              resultImageUrl |-> IF withResult THEN task.resultImageUrl
                                 ELSE None,
              textResponse |-> IF withResult THEN task.textResponse ELSE None,
              withError |-> withError,
              error |-> IF withError THEN task.error ELSE None]

GetTaskStatus(q) ==
    /\ lastResponse = NoResponse
    /\ lastResponse' = StatusResponse(q)
    /\ UNCHANGED <<svars, parse, call, fetch, taskStore, now, ticks, timers, proc, posted>>

\* the client has the response
ResponseDelivered ==
    /\ lastResponse # NoResponse
    /\ lastResponse' = NoResponse
    /\ UNCHANGED <<svars, parse, call, fetch, taskStore, now, ticks, timers, proc, posted>>

-----------------------------------------------------------------------------
(* The form's polling. pollTaskStatus is a function of one render of the    *)
(* component: the pollingCount it reads is the value of the state in that   *)
(* render, and the call it schedules with setTimeout is the same function.  *)

POLL_LIMIT == 30
MaxRounds == 32

\* pollingCount is the React state, closure the value of pollingCount in the
\* render whose pollTaskStatus is running
IdleForm ==
    [pc |-> "idle", closure |-> 0, pollingCount |-> 0, isLoading |-> FALSE,
     error |-> "none"]

\* handleProcessImage up to the call of pollTaskStatus: the state is reset
\* with setPollingCount(0); the handlers of the render the click was made in
\* keep that render's pollingCount
HandleProcessImage(processOk) ==
    /\ ~form.isLoading
    /\ form' = IF processOk
               THEN [pc |-> "polling", closure |-> form.pollingCount,
                     pollingCount |-> 0, isLoading |-> TRUE, error |-> "none"]
               ELSE [pc |-> "stopped", closure |-> form.pollingCount,
                     pollingCount |-> 0, isLoading |-> FALSE,
                     error |-> "process"]
    /\ UNCHANGED <<kvStore, pipe, gvars, tvars, fvars, pvars>>

\* GET /api/edit/process-result with a task id: always 404 RESULT_NOT_READY,
\* unless the request itself fails
ResultAnswers == {"notReady", "requestFails"}

Polling == [form EXCEPT !.pollingCount = @ + 1]

Stopped(error) ==
    [form EXCEPT !.pollingCount = @ + 1, !.pc = "stopped",
                 !.isLoading = FALSE, !.error = error]

\* one round: pollTaskStatus called by handleProcessImage or by the timer
PollTaskStatus(resultAnswer, statusOk) ==
    /\ form.pc = "polling"
    /\ form.pollingCount < MaxRounds
    /\ form' = IF form.closure = 0 /\ resultAnswer = "notReady"
               THEN Polling
               ELSE IF ~statusOk THEN Stopped("status")
               ELSE IF form.closure >= POLL_LIMIT THEN Stopped("timeout")
               ELSE Polling
    /\ UNCHANGED <<kvStore, pipe, gvars, tvars, fvars, pvars>>

NextPoll ==
    \/ \E processOk \in BOOLEAN : HandleProcessImage(processOk)
    \/ \E resultAnswer \in ResultAnswers, statusOk \in BOOLEAN :
          PollTaskStatus(resultAnswer, statusOk)

Init ==
    /\ call = IdleCall /\ TasksIdle /\ fetch = IdleFetch /\ parse = IdleParse
    /\ SplitIdle /\ form = IdleForm

Next ==
    \/ \E prompt \in Prompts, imageUrl \in UrlKinds : PostEdit(prompt, imageUrl)
    \/ \E t \in TaskIds : ProcessStep(t)
    \/ \E d \in ClockSteps : Tick(d)
    \/ cleanupExpiredTasks
    \/ \E q \in StatusQueries : GetTaskStatus(q)
    \/ ResponseDelivered

Spec == Init /\ [][Next]_vars

\* The steps that change tasks, under the scheduling the runtime gives them:
\* a pending timer fires, an external call returns or fails, a response is
\* delivered.
NextTasks ==
    \/ \E prompt \in Prompts, imageUrl \in UrlKinds : PostEdit(prompt, imageUrl)
    \/ \E t \in TaskIds : ProcessStep(t)
    \/ \E d \in ClockSteps : Tick(d)
    \/ cleanupExpiredTasks
    \/ ResponseDelivered

FairSpec ==
    /\ Init
    /\ [][NextTasks]_vars
    /\ WF_vars(ResponseDelivered)
    /\ \A t \in TaskIds : WF_vars(ProcessStep(t))

-----------------------------------------------------------------------------
(* The split pipeline: the start endpoint creates the task and triggers    *)
(* the process endpoint, which triggers the save endpoint; the front end   *)
(* polls the status endpoint.                                              *)

Failed(code) == [status |-> "failed", error |-> Some([code |-> code])]

\* POST of the endpoint that creates the task: createTask, then the request
\* to the process endpoint
StartEdit(t) ==
    /\ Internal
    /\ pipe[t].start = "none"
    /\ kvStore' = [u \in DOMAIN kvStore \cup {t} |->
                      IF u = t THEN createTask(t, Some("img_v3_1"))
                      ELSE kvStore[u]]
    /\ pipe' = [pipe EXCEPT ![t].start = "created", ![t].requests = @ + 1,
                            ![t].queued = @ + 1]
    /\ UNCHANGED <<form, gvars, tvars, fvars, pvars>>

\* POST /api/edit/start: a task id is generated but no task is stored, the
\* process endpoint is requested and the request answered with success,
\* status 'pending' and the message that the task was created
StartEditStateless(t) ==
    /\ Internal
    /\ pipe[t].start = "none"
    /\ pipe' = [pipe EXCEPT ![t].start = "pending", ![t].requests = @ + 1,
                            ![t].queued = @ + 1]
    /\ UNCHANGED <<kvStore, form, gvars, tvars, fvars, pvars>>

\* the form, given the task id by POST /api/edit/start, requests the process
\* endpoint itself
FrontEndProcess(t) ==
    /\ Internal
    /\ pipe[t].start = "pending"
    /\ ~pipe[t].frontEnd
    /\ pipe' = [pipe EXCEPT ![t].frontEnd = TRUE, ![t].requests = @ + 1,
                            ![t].queued = @ + 1]
    /\ UNCHANGED <<kvStore, form, gvars, tvars, fvars, pvars>>

\* task.internal as the process endpoint reads it after its getTask: the
\* stored object itself, or the copy getTask made of it
TaskInternal(t) ==
    IF pipe[t].live /\ t \in DOMAIN kvStore THEN kvStore[t].internal
    ELSE pipe[t].task[1].internal

\* POST of the process endpoint up to fetchImageFromFeishu
ProcessBegins(t, live) ==
    /\ Internal
    /\ pipe[t].queued > 0
    /\ pipe[t].pc \in {"none", "done"}
    /\ LET task == getTask(t)
           run == [pipe[t] EXCEPT !.queued = @ - 1, !.task = task,
                                  !.live = live /\ task # None]
       IN  IF task = None
           THEN /\ live = FALSE
                /\ pipe' = [pipe EXCEPT ![t] =
                               [run EXCEPT !.pc = "done", !.processHttp = 404]]
                /\ UNCHANGED kvStore
           ELSE IF task[1].internal.originalImageId = None
           THEN /\ kvStore' = updateTask(updateTask(kvStore, t,
                                             [status |-> "processing"]),
                                         t, Failed("PROCESSING_ERROR"))
                /\ pipe' = [pipe EXCEPT ![t] =
                               [run EXCEPT !.pc = "done", !.processHttp = 500]]
           ELSE /\ kvStore' = updateTask(kvStore, t, [status |-> "processing"])
                /\ pipe' = [pipe EXCEPT ![t] = [run EXCEPT !.pc = "fetching"]]
    /\ UNCHANGED <<form, gvars, tvars, fvars, pvars>>

\* the update of the process endpoint with the fields of the image record
FetchedUpdate(internal) ==
    [internal |-> [internal EXCEPT !.systemInternalId = Some("rec1"),
                                   !.fileToken = Some("ft1")]]

\* fetchImageFromFeishu returns or throws
ProcessFetched(t, ok) ==
    /\ Internal
    /\ pipe[t].pc = "fetching"
    /\ IF ok
       THEN /\ kvStore' = updateTask(kvStore, t, FetchedUpdate(TaskInternal(t)))
            /\ pipe' = [pipe EXCEPT ![t].pc = "calling", ![t].edits = @ + 1]
       ELSE /\ kvStore' = updateTask(kvStore, t, Failed("PROCESSING_ERROR"))
            /\ pipe' = [pipe EXCEPT ![t].pc = "done", ![t].processHttp = 500]
    /\ UNCHANGED <<form, gvars, tvars, fvars, pvars>>

ModelAnswers == {"isError", "noImage", "image", "throw"}

\* an update that also declares the task completed
ProcessedUpdateCompleted(internal) ==
    [status |-> "completed",
     internal |-> [internal EXCEPT !.processedImageData = Some("png")]]

\* the update of the process endpoint with the edited image
ProcessedUpdate(internal) ==
    [internal |-> [internal EXCEPT !.processedImageData = Some("png")]]

\* callGeminiApi returns and its response is parsed; on an image the task is
\* updated, the save endpoint requested and the request answered
ProcessModelAnswers(t, o) ==
    /\ Internal
    /\ pipe[t].pc = "calling"
    /\ IF o = "image"
       THEN /\ kvStore' = updateTask(kvStore, t, ProcessedUpdate(TaskInternal(t)))
            /\ pipe' = [pipe EXCEPT ![t].pc = "done", ![t].processHttp = 200,
                                    ![t].saveQueued = @ + 1]
       ELSE /\ kvStore' = updateTask(kvStore, t,
                  Failed(CASE o = "isError" -> "GEMINI_API_ERROR"
                           [] o = "noImage" -> "NO_IMAGE_GENERATED"
                           [] OTHER -> "PROCESSING_ERROR"))
            /\ pipe' = [pipe EXCEPT ![t].pc = "done", ![t].processHttp = 500]
    /\ UNCHANGED <<form, gvars, tvars, fvars, pvars>>

\* POST of the save endpoint up to saveImage
SaveBegins(t) ==
    /\ Internal
    /\ pipe[t].saveQueued > 0
    /\ pipe[t].save \in {"none", "done"}
    /\ LET task == getTask(t)
           run == [pipe[t] EXCEPT !.saveQueued = @ - 1]
       IN  pipe' = [pipe EXCEPT ![t] =
               IF task = None
               THEN [run EXCEPT !.save = "done", !.saveHttp = 404]
               ELSE IF task[1].internal.processedImageData = None
               THEN [run EXCEPT !.save = "done", !.saveHttp = 400]
               ELSE [run EXCEPT !.save = "saving",
                                !.parentId = task[1].internal.systemInternalId]]
    /\ UNCHANGED <<kvStore, form, gvars, tvars, fvars, pvars>>

\* the image saveImage has stored on the document platform
SavedImage == [id |-> "rec2", url |-> "url2", textResponse |-> ""]

\* saveImage returns or throws
SaveImageReturns(t, ok) ==
    /\ Internal
    /\ pipe[t].save = "saving"
    /\ IF ok
       THEN /\ kvStore' = updateTask(kvStore, t,
                      [status |-> "completed", result |-> Some(SavedImage)])
            /\ pipe' = [pipe EXCEPT ![t].save = "done", ![t].saveHttp = 200]
       ELSE /\ kvStore' = updateTask(kvStore, t, Failed("SAVE_ERROR"))
            /\ pipe' = [pipe EXCEPT ![t].save = "done", ![t].saveHttp = 500]
    /\ UNCHANGED <<form, gvars, tvars, fvars, pvars>>

SplitQueries == {""} \cup SplitIds

\* which of result and error the status endpoint of the split pipeline adds
SplitIncludesResult(task) == task.status = "completed" /\ task.result # None

SplitIncludesError(task) ==
    ~SplitIncludesResult(task) /\ task.status = "failed" /\ task.error # None

SplitStatusResponse(q) ==
    IF q = ""
    THEN [endpoint |-> "splitStatus", query |-> q, http |-> 400,
          success |-> FALSE, code |-> "MISSING_TASK_ID"]
    ELSE IF getTask(q) = None
    THEN [endpoint |-> "splitStatus", query |-> q, http |-> 404,
          success |-> FALSE, code |-> "TASK_NOT_FOUND"]
    ELSE LET task == getTask(q)[1]
         IN  [endpoint |-> "splitStatus", query |-> q, http |-> 200,
              success |-> TRUE, taskId |-> task.id, status |-> task.status,
              withResult |-> SplitIncludesResult(task),
              result |-> IF SplitIncludesResult(task) THEN task.result ELSE None,
              withError |-> SplitIncludesError(task),
              error |-> IF SplitIncludesError(task) THEN task.error ELSE None]

\* GET of the status endpoint of the split pipeline
GetSplitStatus(q) ==
    /\ lastResponse = NoResponse
    /\ lastResponse' = SplitStatusResponse(q)
    /\ UNCHANGED <<svars, parse, call, fetch, taskStore, now, ticks, timers, proc,
                   posted>>

NextSplit ==
    \/ \E t \in SplitIds : StartEdit(t)
    \/ \E t \in SplitIds : StartEditStateless(t)
    \/ \E t \in SplitIds : FrontEndProcess(t)
    \/ \E t \in SplitIds, live \in BOOLEAN : ProcessBegins(t, live)
    \/ \E t \in SplitIds, ok \in BOOLEAN : ProcessFetched(t, ok)
    \/ \E t \in SplitIds, o \in ModelAnswers : ProcessModelAnswers(t, o)
    \/ \E t \in SplitIds : SaveBegins(t)
    \/ \E t \in SplitIds, ok \in BOOLEAN : SaveImageReturns(t, ok)
    \/ \E q \in SplitQueries : GetSplitStatus(q)
    \/ ResponseDelivered

SpecSplit == Init /\ [][NextSplit]_vars

SpecPoll == Init /\ [][NextPoll]_vars

-----------------------------------------------------------------------------
(* The two status endpoints side by side. A deployment runs one of the two *)
(* pipelines: the in-memory task manager or the split pipeline.            *)

NextStatus ==
    \/ SplitIdle /\ Next
    \/ posted = {} /\ ticks = 0 /\ NextSplit

SpecStatus == Init /\ [][NextStatus]_vars

-----------------------------------------------------------------------------
(* The download flows and the two image proxies, one request at a time,    *)
(* and the requests POST /api/edit rejects.                                *)

Begun(flow, pc) == [IdleFetch EXCEPT !.flow = flow, !.pc = pc]

Finished(f, result) == [f EXCEPT !.pc = "idle", !.result = result]

FetchQuiet == fetch.pc = "idle" /\ lastResponse = NoResponse

\* the placeholder image of the image proxy, with its X-Error header
Placeholder(xError) ==
    [endpoint |-> "imageProxy", http |-> 200, body |-> "image",
     contentType |-> "image/svg+xml", xError |-> xError]

\* the Content-Type the image proxy answers with for a downloaded image
ContentTypes == {"image/png", "text/html", ""}

IsImageType(contentType) == contentType \in {"image/png", "image/jpeg",
                                             "image/svg+xml"}

ProxyContentType(header) ==
    IF header = "" \/ ~IsImageType(header) THEN "image/jpeg" ELSE header

\* the answers of the document platform to a download request
FetchDownloadOutcomes == {"ok", "notOk", "throw"}

\* extractImageId of the image proxy on the kinds of URL of the model
extractImageId(url) == IF url = "feishuImage" THEN Some("img_v3_1") ELSE None

\* fetchImageFromFeishu(imageId) and fetchImageDataByToken(fileToken) are called
FetchImageFromFeishu ==
    /\ FetchQuiet
    /\ fetch' = Begun("fetchImageFromFeishu", "record")
    /\ UNCHANGED <<gvars, tvars, pvars, svars>>

FetchImageDataByToken ==
    /\ FetchQuiet
    /\ fetch' = Begun("fetchImageDataByToken", "token")
    /\ UNCHANGED <<gvars, tvars, pvars, svars>>

\* GET of the image proxy, up to its first await (or its response)
ImageProxyGet(url, throws) ==
    /\ FetchQuiet
    /\ LET early == IF throws THEN "internal error"
                    ELSE IF url = "" THEN "missing url"
                    ELSE IF ~IsFeishuUrl(url) THEN "not a feishu url"
                    ELSE IF extractImageId(url) = None THEN "no image id"
                    ELSE ""
       IN  IF early = ""
           THEN /\ fetch' = Begun("imageProxy", "token")
                /\ UNCHANGED lastResponse
           ELSE /\ fetch' = Finished(Begun("imageProxy", "idle"), "responded")
                /\ lastResponse' = Placeholder(early)
    /\ UNCHANGED <<svars, parse, call, taskStore, now, ticks, timers, proc, posted>>

\* getImageRecordById returns to fetchImageFromFeishu
FetchRecordReturns(r) ==
    /\ fetch.pc = "record"
    /\ fetch' = IF r = "ok" THEN [fetch EXCEPT !.pc = "token"]
                ELSE Finished(fetch, "thrown")
    /\ UNCHANGED <<gvars, tvars, pvars, svars>>

\* getAccessToken returns: the flow stops, or sends the download request with
\* the Authorization header "Bearer <token>"
FetchTokenReturns(k) ==
    /\ fetch.pc = "token"
    /\ IF k # "throw" /\ TokenAccepted(fetch.flow, k)
       THEN /\ fetch' = [fetch EXCEPT !.pc = "download", !.token = k,
                                      !.sent = Append(@, [bearer |-> k])]
            /\ UNCHANGED lastResponse
       ELSE /\ fetch' = Finished([fetch EXCEPT !.token =
                                     IF k = "throw" THEN "" ELSE k],
                                 IF fetch.flow = "imageProxy"
                                 THEN "responded" ELSE "thrown")
            /\ lastResponse' =
                 IF fetch.flow = "imageProxy"
                 THEN Placeholder(IF k = "throw" THEN "internal error"
                                  ELSE "no access token")
                 ELSE lastResponse
    /\ UNCHANGED <<svars, parse, call, taskStore, now, ticks, timers, proc, posted>>

\* the download answers
FetchDownloadReturns(d, header) ==
    /\ fetch.pc = "download"
    /\ IF d = "ok"
       THEN /\ fetch' = Finished(fetch, IF fetch.flow = "imageProxy"
                                        THEN "responded" ELSE "returned")
            /\ lastResponse' =
                 IF fetch.flow = "imageProxy"
                 THEN [endpoint |-> "imageProxy", http |-> 200,
                       body |-> "image",
                       contentType |-> ProxyContentType(header), xError |-> ""]
                 ELSE lastResponse
       ELSE /\ fetch' = Finished(fetch, IF fetch.flow = "imageProxy"
                                        THEN "responded" ELSE "thrown")
            /\ lastResponse' =
                 IF fetch.flow = "imageProxy"
                 THEN Placeholder("download failed")
                 ELSE lastResponse
    /\ UNCHANGED <<svars, parse, call, taskStore, now, ticks, timers, proc, posted>>

\* GET of the plain proxy: no token, the url is requested as it is given
PlainProxyGet(url) ==
    /\ FetchQuiet
    /\ IF url = ""
       THEN /\ fetch' = Finished(Begun("plainProxy", "idle"), "responded")
            /\ lastResponse' = [endpoint |-> "plainProxy", http |-> 400,
                                body |-> "json", contentType |->
                                "application/json", xError |-> ""]
       ELSE /\ fetch' = Begun("plainProxy", "plainDownload")
            /\ UNCHANGED lastResponse
    /\ UNCHANGED <<svars, parse, call, taskStore, now, ticks, timers, proc, posted>>

PlainProxyDownloadReturns(d, header) ==
    /\ fetch.pc = "plainDownload"
    /\ fetch' = Finished(fetch, "responded")
    /\ lastResponse' =
         IF d = "ok"
         THEN [endpoint |-> "plainProxy", http |-> 200, body |-> "image",
               contentType |-> IF header = "" THEN "image/jpeg" ELSE header,
               xError |-> ""]
         ELSE [endpoint |-> "plainProxy", http |-> 500, body |-> "json",
               contentType |-> "application/json", xError |-> ""]
    /\ UNCHANGED <<svars, parse, call, taskStore, now, ticks, timers, proc, posted>>

NextFetch ==
    \/ FetchImageFromFeishu
    \/ FetchImageDataByToken
    \/ \E url \in UrlKinds, throws \in BOOLEAN : ImageProxyGet(url, throws)
    \/ \E r \in RecordOutcomes : FetchRecordReturns(r)
    \/ \E k \in TokenOutcomes : FetchTokenReturns(k)
    \/ \E d \in FetchDownloadOutcomes, h \in ContentTypes : FetchDownloadReturns(d, h)
    \/ \E url \in UrlKinds : PlainProxyGet(url)
    \/ \E d \in FetchDownloadOutcomes, h \in ContentTypes :
           PlainProxyDownloadReturns(d, h)
    \/ \E prompt \in Prompts, imageUrl \in UrlKinds :
           PostEditRejected(prompt, imageUrl)
    \/ ResponseDelivered

SpecFetch == Init /\ [][NextFetch]_vars

-----------------------------------------------------------------------------
(* One upstream response handed to parseGeminiResponse by the process      *)
(* endpoint (process/route.ts).                                            *)

\* parts per list of a response
MaxParts == 2

ImageFields ==
    {[inlineData |-> Undefined, inline_data |-> Undefined],
     [inlineData |-> Obj([data |-> Str(<<"png">>),
                          mimeType |-> Str(<<"image/jpeg">>)]),
      inline_data |-> Undefined],
     [inlineData |-> Obj([data |-> Undefined, mimeType |-> Undefined]),
      inline_data |-> Undefined],
     [inlineData |-> Undefined,
      inline_data |-> Obj([data |-> Str(<<"png">>), mime_type |-> Undefined])]}

PartTexts == {Undefined, Str(<<"a">>), Number}

PartValues ==
    {JsNull} \cup
    {Obj([text |-> x, inlineData |-> f.inlineData, inline_data |-> f.inline_data]) :
         x \in PartTexts, f \in ImageFields}

PartLists(n) == UNION {[1..k -> PartValues] : k \in 0..n}

ResponseTexts == {Undefined, Str(<<"t">>)}

Response(text, parts, candidates, response) ==
    Obj([text |-> text, parts |-> parts, candidates |-> candidates,
         response |-> response])

Candidates(parts) == Arr(<<Obj([content |-> Obj([parts |-> parts])])>>)

\* the responses of the model with lists of up to n parts: the parts directly
\* in the response, in its first candidate, in the first candidate of its
\* response field, or one part in either place; and the malformed ones
Responses(n) ==
    {JsNull, Undefined}
    \cup {Response(x, p, Undefined, Undefined) :
              x \in ResponseTexts,
              p \in {Undefined, Number} \cup {Arr(l) : l \in PartLists(n)}}
    \cup {Response(x, Undefined, c, Undefined) :
              x \in ResponseTexts,
              c \in {Arr(<< >>), Arr(<<JsNull>>), Candidates(Number)}
                    \cup {Candidates(Arr(l)) : l \in PartLists(n)}}
    \cup {Response(Undefined, Undefined, Undefined,
                   Obj([text |-> x, candidates |-> Candidates(Arr(l))])) :
              x \in ResponseTexts, l \in PartLists(n)}
    \cup {Response(x, Arr(l), Candidates(Arr(m)), Undefined) :
              x \in ResponseTexts,
              l \in PartLists(1), m \in PartLists(1)}

\* const {imageData, mimeType, textResponse} = parseGeminiResponse(result.response)
ParseResponse ==
    /\ parse.pc = "given"
    /\ parse' = [pc |-> "parsed", response |-> parse.response,
                 result |-> parseGeminiResponse(parse.response)]
    /\ UNCHANGED <<gvars, tvars, fvars, svars>>

\* the process endpoint goes on after the parse: it marks the task failed
\* and answers NO_IMAGE_GENERATED, or keeps the image for the save endpoint;
\* an exception ends in its catch block
ProcessAnswers ==
    /\ parse.pc = "parsed"
    /\ lastResponse = NoResponse
    /\ LET code == IF parse.result.raised THEN "PROCESSING_ERROR"
                   ELSE IF ~Truthy(parse.result.value.imageData)
                   THEN "NO_IMAGE_GENERATED" ELSE ""
       IN  /\ parse' = [pc |-> "answered", response |-> parse.response,
                        result |-> parse.result,
                        update |-> IF code = "" THEN "internal" ELSE code]
           /\ lastResponse' =
                IF code = ""
                THEN [endpoint |-> "process", http |-> 200, success |-> TRUE,
                      code |-> ""]
                ELSE ErrorResponse("process", 500, code)
    /\ UNCHANGED <<svars, call, fetch, taskStore, now, ticks, timers, proc, posted>>

InitParse ==
    /\ call = IdleCall /\ TasksIdle /\ fetch = IdleFetch /\ SplitIdle /\ form = IdleForm
    /\ \E r \in Responses(MaxParts) : parse = [pc |-> "given", response |-> r]

NextParse == ParseResponse \/ ProcessAnswers

SpecParse == InitParse /\ [][NextParse]_vars

-----------------------------------------------------------------------------
(* One observed call of callGeminiApi.                                     *)

\* callGeminiApi(prompt, imageData, mimeType) is called with retries = 0
CallGeminiApi(v) ==
    /\ call.pc \in {"idle", "returned", "thrown"}
    /\ call' = [IdleCall EXCEPT !.variant = v, !.pc = "request"]
    /\ UNCHANGED <<tvars, fvars, pvars, svars>>

\* the request to the upstream model is sent
SendRequest ==
    /\ call.pc = "request"
    /\ call.requests < MaxRequests
    /\ call' = [call EXCEPT !.pc = "awaiting", !.requests = @ + 1]
    /\ UNCHANGED <<tvars, fvars, pvars, svars>>

\* the upstream answers and the code runs to its next await or to its return
UpstreamAnswers(o) ==
    /\ call.pc = "awaiting"
    /\ call' = Attempt(call, o)
    /\ UNCHANGED <<tvars, fvars, pvars, svars>>

\* the setTimeout of the retry delay fires
RetryDelayElapsed ==
    /\ call.pc = "waiting"
    /\ call' = [call EXCEPT !.pc = "request"]
    /\ UNCHANGED <<tvars, fvars, pvars, svars>>

InitGemini == Init

NextGemini ==
    \/ \E v \in Variants : CallGeminiApi(v)
    \/ SendRequest
    \/ \E o \in Outcomes : UpstreamAnswers(o)
    \/ RetryDelayElapsed

SpecGemini == InitGemini /\ [][NextGemini]_vars

-----------------------------------------------------------------------------
(* Claims about callGeminiApi, checked under SpecGemini.                   *)

\* the largest number of upstream requests a fixed-count retry allows: the
\* series of MAX_RETRIES attempts (MAX_RETRIES + 1 in the loop variant), and
\* for the variant with an alternative prompt one more series for that prompt
AttemptLimit(variant) ==
    CASE variant = "chat" -> MAX_RETRIES
      [] variant = "loop" -> MAX_RETRIES + 1
      [] variant = "generate" -> 2 * MAX_RETRIES

\* C1: one call to callGeminiApi issues at most a fixed number of upstream
\* requests, whatever the upstream answers; the switch to the alternative
\* prompt does not restart the series of attempts.
C1_FixedCountRetries == call.requests <= AttemptLimit(call.variant)

-----------------------------------------------------------------------------
(* Claims about the task manager, POST /api/edit and the status endpoint,  *)
(* checked under Spec (C9 under FairSpec).                                 *)

Final == {"completed", "failed"}

\* C3: after a run of cleanupExpiredTasks no stored task is older than
\* TASK_EXPIRY, and every task stored before the run whose age is at most
\* TASK_EXPIRY is still stored, unchanged.
C3_CleanupTTL ==
    [][cleanupExpiredTasks =>
         /\ \A t \in DOMAIN taskStore' :
               now' - taskStore'[t].createdAt <= TASK_EXPIRY
         /\ \A t \in Stored :
               now - taskStore[t].createdAt <= TASK_EXPIRY
                   => t \in DOMAIN taskStore' /\ taskStore'[t] = taskStore[t]
      ]_vars

\* a task has been created and the cleanup has removed it, while the clock
\* stands at an age that a task may have and be kept
C3_Witness ==
    /\ \E t \in posted : t \notin Stored
    /\ now = 2 * TASK_EXPIRY

\* C7: a valid POST /api/edit creates exactly one task and answers at once
\* with success, the new taskId and status 'pending'; processEditTask for the
\* task has not started when the response is produced, it is only scheduled.
C7_AnswersPendingAtOnce ==
    /\ [](lastResponse.endpoint = "edit" /\ lastResponse.success =>
            /\ lastResponse.http = 200
            /\ lastResponse.status = "pending"
            /\ lastResponse.taskId \in Stored
            /\ taskStore[lastResponse.taskId].status = "pending"
            /\ proc[lastResponse.taskId].pc = "idle"
            /\ lastResponse.taskId \in timers)
    /\ [](\A t \in TaskIds : proc[t].pc # "idle" => t \in posted)
    /\ [][\A prompt \in Prompts, imageUrl \in UrlKinds :
            PostEdit(prompt, imageUrl) =>
                /\ Cardinality(DOMAIN taskStore') = Cardinality(Stored) + 1
                /\ DOMAIN taskStore' \ Stored = {lastResponse'.taskId}
                /\ \A t \in Stored : taskStore'[t] = taskStore[t]
         ]_vars

\* a valid POST has just been answered
C7_Witness ==
    /\ lastResponse.endpoint = "edit"
    /\ lastResponse.success
    /\ lastResponse.status = "pending"

\* the answer of the status endpoint of the in-memory task manager
MemoryStatusAnswer ==
    lastResponse.endpoint = "status" =>
        LET q == lastResponse.query
        IN  /\ q = 0 => /\ lastResponse.http = 400
                        /\ lastResponse.code = "MISSING_TASK_ID"
            /\ q # 0 /\ q \notin Stored =>
                   /\ lastResponse.http = 404
                   /\ lastResponse.code = "TASK_NOT_FOUND"
            /\ q \in Stored =>
                   /\ lastResponse.http = 200
                   /\ lastResponse.success
                   /\ lastResponse.status = taskStore[q].status
                   /\ lastResponse.withResult
                          <=> taskStore[q].status = "completed"
                   /\ lastResponse.withResult =>
                          /\ lastResponse.resultImageId
                                 = taskStore[q].resultImageId
                          /\ lastResponse.resultImageUrl
                                 = taskStore[q].resultImageUrl
                          /\ lastResponse.textResponse
                                 = taskStore[q].textResponse
                          /\ lastResponse.resultImageId # None
                   /\ ~lastResponse.withResult =>
                          /\ lastResponse.resultImageId = None
                          /\ lastResponse.resultImageUrl = None
                          /\ lastResponse.textResponse = None
                   /\ lastResponse.withError <=> taskStore[q].status = "failed"
                   /\ lastResponse.withError =>
                          /\ lastResponse.error = taskStore[q].error
                          /\ lastResponse.error # None
                   /\ ~lastResponse.withError => lastResponse.error = None

\* the answer of the status endpoint of the split pipeline
SplitStatusAnswer ==
    lastResponse.endpoint = "splitStatus" =>
        LET q == lastResponse.query
        IN  /\ q = "" => /\ lastResponse.http = 400
                         /\ lastResponse.code = "MISSING_TASK_ID"
            /\ q # "" /\ q \notin DOMAIN kvStore =>
                   /\ lastResponse.http = 404
                   /\ lastResponse.code = "TASK_NOT_FOUND"
            /\ q \in DOMAIN kvStore =>
                   /\ lastResponse.http = 200
                   /\ lastResponse.success
                   /\ lastResponse.status = kvStore[q].status
                   /\ lastResponse.withResult <=> kvStore[q].status = "completed"
                   /\ lastResponse.withResult =>
                          /\ lastResponse.result = kvStore[q].result
                          /\ lastResponse.result # None
                   /\ ~lastResponse.withResult => lastResponse.result = None
                   /\ lastResponse.withError <=> kvStore[q].status = "failed"
                   /\ lastResponse.withError =>
                          /\ lastResponse.error = kvStore[q].error
                          /\ lastResponse.error # None
                   /\ ~lastResponse.withError => lastResponse.error = None

C9_EventuallyFinal ==
    \A t \in TaskIds :
        (proc[t].pc \notin {"idle", "notFound"})
            ~> (t \in Stored /\ taskStore[t].status \in Final)

\* C9 as amended: every task on which processEditTask is started eventually
\* is 'completed' or 'failed', or has been removed by cleanupExpiredTasks.
C9_EventuallySettled ==
    \A t \in TaskIds :
        (proc[t].pc # "idle")
            ~> (t \notin Stored \/ taskStore[t].status \in Final)

\* a task whose model call was retried to the last attempt has failed
C9_Witness ==
    \E t \in TaskIds :
        /\ proc[t].pc = "done"
        /\ proc[t].retryCount = MAX_RETRIES
        /\ t \in Stored
        /\ taskStore[t].status = "failed"

\* the moves of a status: none, pending -> processing, processing -> final
StatusMove(a, b) ==
    \/ a = b
    \/ a = "pending" /\ b = "processing"
    \/ a = "processing" /\ b \in Final

\* C10: a task's status only moves pending -> processing -> completed or
\* failed, and a 'completed' or 'failed' status never changes again.
C10_StatusMonotone ==
    [][\A t \in Stored \cap DOMAIN taskStore' :
           StatusMove(taskStore[t].status, taskStore'[t].status)]_vars

\* a task went through all of pending, processing and completed
C10_Witness ==
    \E t \in Stored : taskStore[t].status = "completed" /\ proc[t].pc = "done"


-----------------------------------------------------------------------------
(* The image proxies and the download flows.                               *)

Proxies == {"imageProxy", "plainProxy"}

Undelivered(r) == r.http # 200 \/ r.xError # ""

\* C4: whenever an image proxy cannot deliver the requested image, its GET
\* handler answers with an image body of a Content-Type image/*, and never
\* with a JSON error response.
C4_PlaceholderFallback ==
    (lastResponse.endpoint \in Proxies /\ Undelivered(lastResponse))
        => /\ lastResponse.body = "image"
           /\ IsImageType(lastResponse.contentType)

\* C5: every download request is sent after an access token was obtained and
\* carries that token as its Bearer Authorization header; when getAccessToken
\* yields an empty value, no download request is sent and the operation fails.
C5_BearerTokenFlow ==
    /\ \A i \in 1..Len(fetch.sent) :
           fetch.sent[i].bearer # "" /\ fetch.sent[i].bearer = fetch.token
    /\ (fetch.flow \in Flows /\ fetch.result # "none" /\ fetch.token = "")
           => /\ fetch.sent = << >>
              /\ fetch.result \in {"thrown", "responded"}


-----------------------------------------------------------------------------
(* The response parser.                                                     *)

\* the parts a response holds, wherever it holds them
PartsIn(r) ==
    LET lists == {OptGet(r, "parts"),
                  OptGet(OptGet(OptFirst(OptGet(r, "candidates")), "content"),
                         "parts"),
                  OptGet(OptGet(OptFirst(OptGet(OptGet(r, "response"),
                                                "candidates")),
                                "content"), "parts")}
    IN  UNION {{a.v[i] : i \in 1..Len(a.v)} : a \in {l \in lists : l.t = "array"}}

NoImageFound(r) ==
    \A part \in PartsIn(r) :
        ~Truthy(OptGet(part, "inlineData")) /\ ~Truthy(OptGet(part, "inline_data"))

\* C6: for every response, null and malformed ones included,
\* parseGeminiResponse returns a record {imageData, mimeType, textResponse}
\* and raises nothing; imageData is null when the response holds no image;
\* and on a null imageData the process endpoint marks the task failed with
\* NO_IMAGE_GENERATED and answers that code, never PROCESSING_ERROR.
C6_DefensiveParser ==
    parse.pc \in {"parsed", "answered"} =>
        /\ ~parse.result.raised
        /\ DOMAIN parse.result.value = {"imageData", "mimeType", "textResponse"}
        /\ NoImageFound(parse.response) => parse.result.value.imageData = JsNull
        /\ parse.pc = "answered" =>
               /\ parse.update # "PROCESSING_ERROR"
               /\ parse.result.value.imageData = JsNull =>
                      /\ parse.update = "NO_IMAGE_GENERATED"
                      /\ lastResponse =
                           ErrorResponse("process", 500, "NO_IMAGE_GENERATED")

\* a response with a null part has been parsed and answered
C6_Witness ==
    /\ parse.pc = "answered"
    /\ JsNull \in PartsIn(parse.response)
    /\ ParseBody(parse.response).raised
    /\ parse.update = "NO_IMAGE_GENERATED"


-----------------------------------------------------------------------------
(* The records of the in-memory task store.                                *)

\* C11: in every reachable state of the in-memory task store, completedAt is
\* set exactly when the status is 'completed' or 'failed'; a 'completed' task
\* has resultImageId and resultImageUrl and no error; a 'failed' task has an
\* error with code and message and no result image fields.
C11_StoreRecords ==
    \A t \in Stored :
        LET task == taskStore[t]
        IN  /\ task.completedAt # None <=> task.status \in Final
            /\ task.status = "completed" =>
                   /\ task.resultImageId # None
                   /\ task.resultImageUrl # None
                   /\ task.error = None
            /\ task.status = "failed" =>
                   /\ task.error # None
                   /\ task.error[1].code # ""
                   /\ task.error[1].message # ""
                   /\ task.resultImageId = None
                   /\ task.resultImageUrl = None

\* a task has failed with the code of the error thrown by the upload
C11_Witness ==
    \E t \in Stored :
        /\ taskStore[t].status = "failed"
        /\ taskStore[t].error = Some([code |-> "ECONNABORTED",
                                      message |-> "message"])
        /\ taskStore[t].completedAt # None


StatusOf(store, t) == IF t \in DOMAIN store THEN store[t].status ELSE "absent"

\* a step of the process endpoint on task t that ends its run on a task it found
ProcessRunEnds(t) ==
    /\ pipe[t].pc # "done" \/ pipe'[t].queued < pipe[t].queued
    /\ pipe'[t].pc = "done"
    /\ pipe'[t].task # None

\* a step of the process endpoint on task t
ProcessStepOn(t) ==
    \/ pipe'[t].pc # pipe[t].pc
    \/ pipe'[t].queued < pipe[t].queued

\* a step of the save endpoint on task t that ends its run
SaveRunEnds(t) == pipe[t].save # "done" /\ pipe'[t].save = "done"

FailedWithCode(t) ==
    /\ StatusOf(kvStore', t) = "failed"
    /\ kvStore'[t].error # None
    /\ kvStore'[t].error[1].code # ""

Started == {t \in SplitIds : pipe[t].start = "pending"}

\* C13: for each task id returned by POST /api/edit/start exactly one request
\* to the process endpoint is issued, and the edit runs at most once.
C13_OneProcessRequest ==
    \A t \in Started : pipe[t].requests = 1 /\ pipe[t].edits <= 1

\* C14: a task id returned by POST /api/edit/start with status 'pending' is
\* found by the process endpoint and by the status endpoint: neither answers
\* TASK_NOT_FOUND for it.
C14_StartedTaskIsFound ==
    \A t \in Started :
        /\ pipe[t].processHttp # 404
        /\ lastResponse.endpoint = "splitStatus" /\ lastResponse.query = t
             => lastResponse.http # 404


\* C15: when the save endpoint runs for a task that the process endpoint
\* finished, the parentId it passes to saveImage is the system internal id of
\* the fetched image record, and the stored task still holds the record's
\* fileToken: the update that stores processedImageData discards neither.
C15_ParentIdKept ==
    \A t \in SplitIds :
        pipe[t].save = "saving"
            => /\ pipe[t].parentId = Some("rec1")
               /\ kvStore[t].internal.systemInternalId = Some("rec1")
               /\ kvStore[t].internal.fileToken = Some("ft1")


\* C16: once pollTaskStatus has been started the form performs at most 30
\* polling rounds: the rounds of one submission never exceed the limit.
C16_PollingBounded == form.pollingCount <= POLL_LIMIT


\* the parts of a response in the order response.parts, then the parts of
\* the first candidate (of the response itself, else of response.response)
ListedParts(response) ==
    LET parts == Get(response, "parts")
        own == OptGet(OptGet(OptFirst(Get(response, "candidates")),
                             "content"), "parts")
        nested == OptGet(OptGet(OptFirst(OptGet(Get(response, "response"),
                                                "candidates")),
                                "content"), "parts")
        candidateParts == IF Truthy(own) THEN own ELSE nested
    IN  (IF parts.t = "array" THEN parts.v ELSE << >>)
           \o (IF candidateParts.t = "array" THEN candidateParts.v ELSE << >>)

\* a part that carries an image, and the image it carries
IsImagePart(part) ==
    /\ part.t = "object"
    /\ Truthy(Get(part, "inlineData")) \/ Truthy(Get(part, "inline_data"))

ImageOf(part) ==
    IF Truthy(Get(part, "inlineData"))
    THEN [data |-> Get(Get(part, "inlineData"), "data"),
          mimeType |-> Get(Get(part, "inlineData"), "mimeType")]
    ELSE LET image == Get(part, "inline_data")
         IN  [data |-> Get(image, "data"),
              mimeType |-> IF Truthy(Get(image, "mime_type"))
                           THEN Get(image, "mime_type")
                           ELSE IF Truthy(Get(image, "mimeType"))
                           THEN Get(image, "mimeType")
                           ELSE Str(<<"image/png">>)]

\* the index of the first image part of a list, 0 when there is none
FirstImage(all) ==
    IF \E i \in 1..Len(all) : IsImagePart(all[i])
    THEN CHOOSE i \in 1..Len(all) :
             IsImagePart(all[i]) /\ \A j \in 1..(i - 1) : ~IsImagePart(all[j])
    ELSE 0

\* the text of the parts 1..k of a list
RECURSIVE TextUpTo(_, _)
TextUpTo(all, k) ==
    IF k = 0 THEN << >>
    ELSE TextUpTo(all, k - 1)
           \o (IF Get(all[k], "text").t = "string" THEN Get(all[k], "text").v
               ELSE << >>)

\* the text of the response itself
OwnText(response) ==
    IF Truthy(Get(response, "text")) THEN Get(response, "text").v
    ELSE IF Truthy(OptGet(Get(response, "response"), "text"))
    THEN OptGet(Get(response, "response"), "text").v
    ELSE << >>

\* the parts the parser has to look at: all up to the first image part
Looked(all) == IF FirstImage(all) = 0 THEN Len(all) ELSE FirstImage(all)

\* a response whose part lists are lists (or absent) and whose parts, up to
\* the first image part, are objects
WellFormed(response) ==
    /\ response.t = "object"
    /\ Get(response, "parts").t \in {"array", "undefined"}
    /\ OptGet(OptGet(OptFirst(Get(response, "candidates")), "content"),
              "parts").t \in {"array", "undefined"}
    /\ \A i \in 1..Looked(ListedParts(response)) :
           ListedParts(response)[i].t = "object"

\* C17: parseGeminiResponse stops at the first image: for a well-formed
\* response it returns the data and mimeType of the first image part in the
\* order response.parts, candidate parts; textResponse is the response text
\* followed by the text of the parts up to that part only (behind the error
\* marker when that part holds no data); and when no part carries an image
\* imageData is null and a non-empty text is returned behind the error marker.
C17_FirstImageWins ==
    (parse.pc # "given" /\ WellFormed(parse.response))
        => LET all == ListedParts(parse.response)
               k == FirstImage(all)
               text == OwnText(parse.response) \o TextUpTo(all, Looked(all))
               marked == IF text = << >> THEN Str(text)
                         ELSE Str(<<"NO_IMAGE_PREFIX">> \o text)
               r == parse.result.value
           IN  /\ ~parse.result.raised
               /\ k > 0 =>
                    /\ r.imageData = ImageOf(all[k]).data
                    /\ r.mimeType = ImageOf(all[k]).mimeType
                    /\ r.textResponse =
                         IF Truthy(r.imageData) THEN Str(text) ELSE marked
               /\ (k = 0 /\ (Len(all) > 0 \/ text # << >>)) =>
                    /\ r.imageData = JsNull
                    /\ r.textResponse = marked

\* two image parts of different types, the second with a text: the first is
\* returned and the text of the second is not
C17_Witness ==
    /\ parse.pc = "parsed"
    /\ WellFormed(parse.response)
    /\ LET all == ListedParts(parse.response)
       IN  /\ Len(all) = 2
           /\ IsImagePart(all[1]) /\ IsImagePart(all[2])
           /\ Get(parse.response, "parts").t = "array"
           /\ Len(Get(parse.response, "parts").v) = 1
           /\ ImageOf(all[1]).mimeType # ImageOf(all[2]).mimeType
           /\ Get(all[2], "text") = Str(<<"a">>)
           /\ parse.result.value.mimeType = ImageOf(all[1]).mimeType
           /\ Truthy(parse.result.value.imageData)
           /\ parse.result.value.textResponse = Str(OwnText(parse.response))

====
